---- MODULE Spec2Model ----
(***************************************************************************)
(* Model of src/index.js: ConsensusDecisionSystem (agent registry,         *)
(* proposals, votes, consensus evaluation, decision finalization) and the  *)
(* part of AIConsensusStrategy that calls back into it.                    *)
(*                                                                         *)
(* Encoding.                                                               *)
(*  - A JavaScript vote value is a record with a kind tag k and one slot   *)
(*    per kind (n: number, s: string, b: boolean, xs: array of numbers).   *)
(*  - Weights are integers in tenths: WeightUnit stands for 1.0.  All      *)
(*    weights used are multiples of 0.5, so the float sums of the code are *)
(*    exact and the float comparison yesRatio >= requiredConsensus agrees  *)
(*    with the rational comparison made here.                              *)
(*  - requiredConsensus is kept in percent (60 for 0.6).                   *)
(*  - Date.now() is the variable now; Tick lets time pass between calls    *)
(*    and vote() may see the clock advance between its two deadline reads. *)
(*  - Opaque data (names, roles, titles, descriptions, the creator, the    *)
(*    content of a comment entry, the per-vote comment and timestamp,      *)
(*    joinedAt, createdAt) is left out: no branch reads it.                *)
(*  - voteDeadline is one tick of the model clock (300000 ms in the code). *)
(*  - A call is one atomic action built from the operator that models the  *)
(*    method; a call that returns an error without touching the state is a *)
(*    stuttering step.  Claims about what a call does are stated on the    *)
(*    operator, for every reachable state and every argument.              *)
(*  - A Map keeps insertion order; the sums and sets computed from the     *)
(*    votes map do not depend on it, so votes is a function and the        *)
(*    participants array is a set.                                         *)
(*  - The tallies of countVotes are plain objects: a bucket is a property, *)
(*    and reading a property the object inherits from Object.prototype     *)
(*    yields a function, from which the addition makes a string.  The      *)
(*    model keeps such a bucket as NotANumber.                             *)
(*  - Spec runs one proposal with three agents, comments and the advisory  *)
(*    call; SpecTwo runs two proposals side by side with two agents.       *)
(***************************************************************************)
EXTENDS Integers, Sequences, FiniteSets, TLC

\* ---- bounds of the model
MaxTime == 2
MaxProposals == 1
MaxDecisions == 2
MaxComments == 1
MaxProposalsTwo == 2

\* ---- program constants
minAgents == 2
voteDeadline == 1
consensusThreshold == 60
WeightUnit == 10

\* ---- input domains
AgentIds == {"a", "b", "c"}
\* <<agentId, weight>> of the registerAgent calls (1.0, 1.5 and 0.5)
Registrations == { <<"a", 10>>, <<"b", 15>>, <<"c", 5>> }
\* <<type, options.length>> of the proposals created
ProposalShapes ==
    { <<"yesno", 0>>, <<"single", 3>>, <<"single", 1>>, <<"multi", 3>>,
      <<"ranked", 3>>, <<"custom", 0>> }

Num(n) == [k |-> "num", n |-> n, s |-> "", b |-> FALSE, xs |-> <<>>]
Str(s) == [k |-> "str", n |-> 0, s |-> s, b |-> FALSE, xs |-> <<>>]
Bool(b) == [k |-> "bool", n |-> 0, s |-> "", b |-> b, xs |-> <<>>]
Arr(xs) == [k |-> "arr", n |-> 0, s |-> "", b |-> FALSE, xs |-> xs]
NoVote == [k |-> "none", n |-> 0, s |-> "", b |-> FALSE, xs |-> <<>>]

\* The vote values tried on a proposal of each type: values of every tally
\* bucket the type has, and values its validator rejects.  The label voted
\* on a single proposal is the name of a property every JavaScript object
\* inherits.
VoteInputs(type) ==
    CASE type = "yesno" -> {Str("yes"), Bool(FALSE), Num(0)}
      [] type = "single" -> {Num(0), Num(1), Num(5), Str("toString")}
      [] type = "multi" -> {Arr(<<0>>), Arr(<<1>>), Num(0)}
      [] type = "ranked" -> {Arr(<<0>>), Num(0)}
      [] OTHER -> {Str("yes"), Num(5)}

VARIABLES agents, proposals, decisions, votes, consensusHistory,
          proposalIdCounter, decisionIdCounter, now

vars == << agents, proposals, decisions, votes, consensusHistory,
           proposalIdCounter, decisionIdCounter, now >>

\* The mutable part of the system object, passed through the nested calls.
Sys == [ agents |-> agents, proposals |-> proposals, decisions |-> decisions,
         consensusHistory |-> consensusHistory,
         decisionIdCounter |-> decisionIdCounter ]

Range(f) == { f[x] : x \in DOMAIN f }

RECURSIVE SumOver(_, _)
SumOver(f, S) ==
    IF S = {} THEN 0
    ELSE LET x == CHOOSE y \in S : TRUE
         IN  f[x] + SumOver(f, S \ {x})

\* ---- vote classification (the literal comparisons of the code)
IsYesLiteral(v) ==
    \/ v.k = "str" /\ v.s = "yes"
    \/ v.k = "bool" /\ v.b = TRUE
    \/ v.k = "num" /\ v.n = 0

IsNoLiteral(v) ==
    \/ v.k = "str" /\ v.s = "no"
    \/ v.k = "bool" /\ v.b = FALSE
    \/ v.k = "num" /\ v.n = 1

ArrayIncludes(v, n) == v.k = "arr" /\ n \in Range(v.xs)

\* agent?.weight || 1.0
WeightOf(S, agentId) ==
    IF agentId \in DOMAIN S.agents /\ S.agents[agentId].weight # 0
    THEN S.agents[agentId].weight
    ELSE WeightUnit

\* Mutant: the index of a single vote is only checked from below.
validateVote_NoUpperBound(proposal, vote) ==
    CASE proposal.type = "single" ->
            IF vote.k = "num" /\ vote.n < 0
            THEN "invalid option index" ELSE ""
      [] proposal.type = "multi" ->
            IF vote.k # "arr" THEN "multi needs array" ELSE ""
      [] proposal.type = "ranked" ->
            IF vote.k # "arr" THEN "ranked needs array" ELSE ""
      [] proposal.type = "yesno" ->
            IF ~ ( \/ vote.k = "str" /\ vote.s \in {"yes", "no"}
                   \/ vote.k = "bool" )
            THEN "yesno needs yes/no/true/false" ELSE ""
      [] OTHER -> ""

validateVote(proposal, vote) ==
    CASE proposal.type = "single" ->
            IF vote.k = "num" /\ (vote.n < 0 \/ vote.n >= proposal.optionCount)
            THEN "invalid option index" ELSE ""
      [] proposal.type = "multi" ->
            IF vote.k # "arr" THEN "multi needs array" ELSE ""
      [] proposal.type = "ranked" ->
            IF vote.k # "arr" THEN "ranked needs array" ELSE ""
      [] proposal.type = "yesno" ->
            IF ~ ( \/ vote.k = "str" /\ vote.s \in {"yes", "no"}
                   \/ vote.k = "bool" )
            THEN "yesno needs yes/no/true/false" ELSE ""
      [] OTHER -> ""

\* String(voteIndex): the property key countVotes uses for single/multi.
KeyOf(vote) ==
    CASE vote.k = "num" -> ToString(vote.n)
      [] vote.k = "str" -> vote.s
      [] vote.k = "bool" -> IF vote.b THEN "true" ELSE "false"
      [] vote.k = "arr" ->
            IF Len(vote.xs) = 0 THEN "undefined" ELSE ToString(vote.xs[1])
      [] OTHER -> "undefined"

\* Mutant: the option buckets of single and multi are numbered from 1.
CountKey_OneBased(proposal, vote) ==
    IF proposal.type = "yesno"
    THEN IF (vote.k = "str" /\ vote.s = "yes") \/ (vote.k = "bool" /\ vote.b)
         THEN "yes"
         ELSE IF (vote.k = "str" /\ vote.s = "no") \/ (vote.k = "bool" /\ ~vote.b)
              THEN "no"
              ELSE "abstain"
    ELSE IF proposal.type \in {"single", "multi"}
         THEN IF vote.k = "num" THEN ToString(vote.n + 1) ELSE KeyOf(vote)
         ELSE "-"

\* The bucket countVotes adds a vote to (no bucket for ranked / other types).
CountKey(proposal, vote) ==
    IF proposal.type = "yesno"
    THEN IF (vote.k = "str" /\ vote.s = "yes") \/ (vote.k = "bool" /\ vote.b)
         THEN "yes"
         ELSE IF (vote.k = "str" /\ vote.s = "no") \/ (vote.k = "bool" /\ ~vote.b)
              THEN "no"
              ELSE "abstain"
    ELSE IF proposal.type \in {"single", "multi"}
         THEN KeyOf(vote)
         ELSE "-"

\* The function-valued properties a plain object ({}) inherits from
\* Object.prototype: results.counts[k] is truthy for them before any write.
ObjectPrototypeFunctions ==
    { "constructor", "toString", "toLocaleString", "valueOf",
      "hasOwnProperty", "isPrototypeOf", "propertyIsEnumerable" }

\* Stands for the string that (results.counts[k] || 0) + 1 yields when
\* results.counts[k] is an inherited function: not a number.
NotANumber == -1

\* results.counts[k] / results.weightedCounts[k] after the loop, where sum is
\* what the additions give when the property starts undefined or 0.
CountProperty(proposal, k, sum) ==
    IF proposal.type \in {"single", "multi"} /\ k \in ObjectPrototypeFunctions
    THEN NotANumber
    ELSE sum

countVotes(S, proposal) ==
    LET voters == DOMAIN proposal.votes
        keyOf == [a \in voters |-> CountKey(proposal, proposal.votes[a])]
        weightOf == [a \in voters |-> WeightOf(S, a)]
        initKeys ==
            IF proposal.type = "yesno"
            THEN {"yes", "no", "abstain"}
            ELSE { ToString(i) : i \in 0 .. (proposal.optionCount - 1) }
        \* an assignment of a string to __proto__ creates no property
        keys == initKeys \cup (Range(keyOf) \ {"-", "__proto__"})
    IN  [ counts |->
            [k \in keys |-> CountProperty(proposal, k,
                Cardinality({a \in voters : keyOf[a] = k}))],
          weightedCounts |->
            [k \in keys |-> CountProperty(proposal, k,
                SumOver(weightOf, {a \in voters : keyOf[a] = k}))],
          breakdown |->
            { [agentId |-> a, vote |-> proposal.votes[a], weight |-> weightOf[a]]
                : a \in voters } ]

\* yesVotes / totalVotes as the fraction num/den (0 when there are no votes).
calculateConsensusRatio(proposal) ==
    LET voters == DOMAIN proposal.votes
        yesVotes ==
            Cardinality({ a \in voters :
                /\ proposal.type \in {"yesno", "single"}
                /\ IsYesLiteral(proposal.votes[a]) })
    IN  IF Cardinality(voters) > 0
        THEN [num |-> yesVotes, den |-> Cardinality(voters)]
        ELSE [num |-> 0, den |-> 1]

\* Mutant: a yes voter is credited an agreement and a disagreement.
UpdateAgentStats_BothCredited(agent, proposal, vote) ==
    LET agreed == proposal.type \in {"yesno", "single"} /\ IsYesLiteral(vote)
        disagreed == proposal.type \in {"yesno", "single"}
    IN  [agent EXCEPT
            !.participatedDecisions = @ + 1,
            !.agreedDecisions = IF agreed THEN @ + 1 ELSE @,
            !.disagreedDecisions = IF disagreed THEN @ + 1 ELSE @]

\* Mutant: agreement is credited whatever the proposal type.
UpdateAgentStats_AnyType(agent, proposal, vote) ==
    [agent EXCEPT
        !.participatedDecisions = @ + 1,
        !.agreedDecisions = IF IsYesLiteral(vote) THEN @ + 1 ELSE @,
        !.disagreedDecisions = IF ~IsYesLiteral(vote) THEN @ + 1 ELSE @]

\* The statistics update of one voter inside finalizeDecision.
UpdateAgentStats(agent, proposal, vote) ==
    LET agreed == proposal.type \in {"yesno", "single"} /\ IsYesLiteral(vote)
        disagreed == proposal.type \in {"yesno", "single"} /\ ~IsYesLiteral(vote)
    IN  [agent EXCEPT
            !.participatedDecisions = @ + 1,
            !.agreedDecisions = IF agreed THEN @ + 1 ELSE @,
            !.disagreedDecisions = IF disagreed THEN @ + 1 ELSE @]

\* Mutant: the new Decision is put at the front of the history.
finalizeDecision_Unshift(S, pid, t) ==
    LET proposal == S.proposals[pid]
        decisionId == S.decisionIdCounter
        decision ==
            [ id |-> decisionId,
              proposalId |-> proposal.id,
              result |-> proposal.status,
              results |-> countVotes(S, proposal),
              participants |-> DOMAIN proposal.votes,
              decidedAt |-> t,
              consensusRatio |-> calculateConsensusRatio(proposal) ]
    IN  [ S EXCEPT
            !.decisionIdCounter = @ + 1,
            !.decisions = (decisionId :> decision) @@ @,
            !.agents =
                [a \in DOMAIN S.agents |->
                    IF a \in DOMAIN proposal.votes
                    THEN UpdateAgentStats(S.agents[a], proposal, proposal.votes[a])
                    ELSE S.agents[a]],
            !.consensusHistory = <<decision>> \o @ ]

\* finalizeDecision(proposal), run at clock value t; the new system object.
finalizeDecision(S, pid, t) ==
    LET proposal == S.proposals[pid]
        decisionId == S.decisionIdCounter
        decision ==
            [ id |-> decisionId,
              proposalId |-> proposal.id,
              result |-> proposal.status,
              results |-> countVotes(S, proposal),
              participants |-> DOMAIN proposal.votes,
              decidedAt |-> t,
              consensusRatio |-> calculateConsensusRatio(proposal) ]
    IN  [ S EXCEPT
            !.decisionIdCounter = @ + 1,
            !.decisions = (decisionId :> decision) @@ @,
            !.agents =
                [a \in DOMAIN S.agents |->
                    IF a \in DOMAIN proposal.votes
                    THEN UpdateAgentStats(S.agents[a], proposal, proposal.votes[a])
                    ELSE S.agents[a]],
            !.consensusHistory = Append(@, decision) ]

\* Mutant: a ranked vote is tallied like a multi vote.
TallyBucket_RankedAsMulti(proposal, vote) ==
    IF proposal.type \in {"yesno", "single"}
    THEN IF IsYesLiteral(vote) THEN "yes"
         ELSE IF IsNoLiteral(vote) THEN "no"
         ELSE "abstain"
    ELSE IF proposal.type \in {"multi", "ranked"}
         THEN IF ArrayIncludes(vote, 0) THEN "yes" ELSE "no"
         ELSE "-"

\* Mutant: every array voted on a multi proposal counts as yes.
TallyBucket_MultiAnyArray(proposal, vote) ==
    IF proposal.type \in {"yesno", "single"}
    THEN IF IsYesLiteral(vote) THEN "yes"
         ELSE IF IsNoLiteral(vote) THEN "no"
         ELSE "abstain"
    ELSE IF proposal.type = "multi"
         THEN IF vote.k = "arr" THEN "yes" ELSE "no"
         ELSE "-"

\* The bucket of one vote in checkConsensus' tally loop.
TallyBucket(proposal, vote) ==
    IF proposal.type \in {"yesno", "single"}
    THEN IF IsYesLiteral(vote) THEN "yes"
         ELSE IF IsNoLiteral(vote) THEN "no"
         ELSE "abstain"
    ELSE IF proposal.type = "multi"
         THEN IF ArrayIncludes(vote, 0) THEN "yes" ELSE "no"
         ELSE "-"

\* Mutant: the registry size is compared with minAgents instead of the votes.
InsufficientVotes_ByAgents(S, proposal) ==
    Cardinality(DOMAIN S.agents) < minAgents

\* totalVotes < this.config.minAgents
InsufficientVotes(S, proposal) ==
    Cardinality(DOMAIN proposal.votes) < minAgents

\* Mutant: the ratio is taken over the weight of the votes cast.
ConsensusReached_OverCast(yesWeight, totalWeight, totalAgents, requiredConsensus) ==
    totalWeight > 0 /\ yesWeight * 100 >= requiredConsensus * totalWeight

\* yesRatio >= proposal.requiredConsensus, where
\* yesRatio = totalWeight > 0 ? yesWeight / (totalAgents * 1.0) : 0
\* (weights in tenths, requiredConsensus in percent).
ConsensusReached(yesWeight, totalWeight, totalAgents, requiredConsensus) ==
    LET yesRatioNum == IF totalWeight > 0 THEN yesWeight ELSE 0
    IN  yesRatioNum * 100 >= requiredConsensus * WeightUnit * totalAgents

NoStatus ==
    [ evaluated |-> FALSE, insufficient |-> FALSE, reached |-> FALSE,
      totalVotes |-> 0, totalAgents |-> 0,
      yesVotes |-> 0, noVotes |-> 0, abstainVotes |-> 0,
      yesWeight |-> 0, noWeight |-> 0 ]

\* The status object checkConsensus computes for the proposal.
ConsensusStatus(S, proposal) ==
    LET voters == DOMAIN proposal.votes
        totalVotes == Cardinality(voters)
        totalAgents == Cardinality(DOMAIN S.agents)
        bucket == [a \in voters |-> TallyBucket(proposal, proposal.votes[a])]
        weightOf == [a \in voters |-> WeightOf(S, a)]
        In(b) == {a \in voters : bucket[a] = b}
        yesWeight == SumOver(weightOf, In("yes"))
        noWeight == SumOver(weightOf, In("no"))
        abstainWeight == SumOver(weightOf, In("abstain"))
        totalWeight == yesWeight + noWeight + abstainWeight
    IN  IF InsufficientVotes(S, proposal)
        THEN [NoStatus EXCEPT !.evaluated = TRUE, !.insufficient = TRUE]
        ELSE [ evaluated |-> TRUE, insufficient |-> FALSE,
               reached |-> ConsensusReached(yesWeight, totalWeight, totalAgents,
                                            proposal.requiredConsensus),
               totalVotes |-> totalVotes, totalAgents |-> totalAgents,
               yesVotes |-> Cardinality(In("yes")),
               noVotes |-> Cardinality(In("no")),
               abstainVotes |-> Cardinality(In("abstain")),
               yesWeight |-> yesWeight, noWeight |-> noWeight ]

\* Mutant: checkConsensus without its deadline check.
DeadlinePassedAtCheck_Never(proposal, t) == FALSE

\* Date.now() > proposal.deadline, as checkConsensus tests it
DeadlinePassedAtCheck(proposal, t) == t > proposal.deadline

\* checkConsensus(proposal) with Date.now() = t: the new system object.
checkConsensus(S, pid, t) ==
    LET proposal == S.proposals[pid]
        status == ConsensusStatus(S, proposal)
    IN  IF status.insufficient THEN S
        ELSE IF status.reached
        THEN finalizeDecision([S EXCEPT !.proposals[pid].status = "accepted"], pid, t)
        ELSE IF DeadlinePassedAtCheck(proposal, t)
        THEN finalizeDecision([S EXCEPT !.proposals[pid].status = "rejected"], pid, t)
        ELSE S

\* Mutant: vote() without its own deadline check.
DeadlinePassedAtVote_Never(proposal, t) == FALSE

\* Date.now() > proposal.deadline, as vote() tests it
DeadlinePassedAtVote(proposal, t) == t > proposal.deadline

\* Mutant: vote() without the registration check.
VoterRegistered_Always(S, agentId) == TRUE

\* this.agents.has(agentId), as vote() tests it
VoterRegistered(S, agentId) == agentId \in DOMAIN S.agents

\* Mutant: vote() without the status check.
StatusIsVoting_Always(proposal) == TRUE

\* proposal.status === 'voting', as vote() tests it
StatusIsVoting(proposal) == proposal.status = "voting"

\* Mutant: vote() stores the vote before it validates it.
vote_RecordFirst(S, gv, agentId, pid, v, t1, t2) ==
    LET failed(S1, e) ==
            [sys |-> S1, votes |-> gv, error |-> e, consensusStatus |-> NoStatus]
    IN  IF ~VoterRegistered(S, agentId) THEN failed(S, "AgentNotFound")
        ELSE IF pid \notin DOMAIN S.proposals THEN failed(S, "ProposalNotFound")
        ELSE IF ~StatusIsVoting(S.proposals[pid]) THEN failed(S, "ProposalNotVoting")
        ELSE IF DeadlinePassedAtVote(S.proposals[pid], t1)
        THEN failed([S EXCEPT !.proposals[pid].status = "expired"], "ExpiredProposal")
        ELSE LET S1 == [S EXCEPT !.proposals[pid].votes = (agentId :> v) @@ @]
             IN  IF validateVote(S.proposals[pid], v) # ""
                 THEN failed(S1, validateVote(S.proposals[pid], v))
                 ELSE [ sys |-> checkConsensus(S1, pid, t2),
                        votes |-> (<<pid, agentId>> :> v) @@ gv,
                        error |-> "",
                        consensusStatus |-> ConsensusStatus(S1, S1.proposals[pid]) ]

\* Mutant: a vote already recorded for the agent is kept (first write wins).
vote_KeepFirst(S, gv, agentId, pid, v, t1, t2) ==
    LET failed(S1, e) ==
            [sys |-> S1, votes |-> gv, error |-> e, consensusStatus |-> NoStatus]
    IN  IF ~VoterRegistered(S, agentId) THEN failed(S, "AgentNotFound")
        ELSE IF pid \notin DOMAIN S.proposals THEN failed(S, "ProposalNotFound")
        ELSE IF ~StatusIsVoting(S.proposals[pid]) THEN failed(S, "ProposalNotVoting")
        ELSE IF DeadlinePassedAtVote(S.proposals[pid], t1)
        THEN failed([S EXCEPT !.proposals[pid].status = "expired"], "ExpiredProposal")
        ELSE IF validateVote(S.proposals[pid], v) # ""
        THEN failed(S, validateVote(S.proposals[pid], v))
        ELSE LET S1 == [S EXCEPT !.proposals[pid].votes = @ @@ (agentId :> v)]
             IN  [ sys |-> checkConsensus(S1, pid, t2),
                   votes |-> gv @@ (<<pid, agentId>> :> v),
                   error |-> "",
                   consensusStatus |-> ConsensusStatus(S1, S1.proposals[pid]) ]

\* vote(agentId, proposalId, vote): t1 is Date.now() at the deadline check of
\* vote(), t2 is Date.now() inside checkConsensus.  gv is the global votes map.
vote(S, gv, agentId, pid, v, t1, t2) ==
    LET failed(S1, e) ==
            [sys |-> S1, votes |-> gv, error |-> e, consensusStatus |-> NoStatus]
    IN  IF ~VoterRegistered(S, agentId) THEN failed(S, "AgentNotFound")
        ELSE IF pid \notin DOMAIN S.proposals THEN failed(S, "ProposalNotFound")
        ELSE IF ~StatusIsVoting(S.proposals[pid]) THEN failed(S, "ProposalNotVoting")
        ELSE IF DeadlinePassedAtVote(S.proposals[pid], t1)
        THEN failed([S EXCEPT !.proposals[pid].status = "expired"], "ExpiredProposal")
        ELSE IF validateVote(S.proposals[pid], v) # ""
        THEN failed(S, validateVote(S.proposals[pid], v))
        ELSE LET S1 == [S EXCEPT !.proposals[pid].votes = (agentId :> v) @@ @]
             IN  [ sys |-> checkConsensus(S1, pid, t2),
                   votes |-> (<<pid, agentId>> :> v) @@ gv,
                   error |-> "",
                   consensusStatus |-> ConsensusStatus(S1, S1.proposals[pid]) ]

\* registerAgent(agentId, name, role, weight): Map.set overwrites an old entry.
registerAgent(S, agentId, weight) ==
    [S EXCEPT !.agents =
        (agentId :> [ id |-> agentId, weight |-> weight, reputation |-> 100,
                      participatedDecisions |-> 0, agreedDecisions |-> 0,
                      disagreedDecisions |-> 0 ]) @@ @]

\* The proposal object createProposal builds at clock value t.
NewProposal(proposalId, type, optionCount, t) ==
    [ id |-> proposalId, type |-> type, optionCount |-> optionCount,
      status |-> "voting", deadline |-> t + voteDeadline,
      votes |-> << >>, comments |-> << >>,
      requiredConsensus |-> consensusThreshold ]

SetSys(S) ==
    /\ agents' = S.agents
    /\ proposals' = S.proposals
    /\ decisions' = S.decisions
    /\ consensusHistory' = S.consensusHistory
    /\ decisionIdCounter' = S.decisionIdCounter

Init ==
    /\ agents = << >>
    /\ proposals = << >>
    /\ decisions = << >>
    /\ votes = << >>
    /\ consensusHistory = << >>
    /\ proposalIdCounter = 1
    /\ decisionIdCounter = 1
    /\ now = 0

Tick ==
    /\ now < MaxTime
    /\ now' = now + 1
    /\ UNCHANGED << agents, proposals, decisions, votes, consensusHistory,
                    proposalIdCounter, decisionIdCounter >>

RegisterAgent(agentId, weight) ==
    /\ SetSys(registerAgent(Sys, agentId, weight))
    /\ UNCHANGED << votes, proposalIdCounter, now >>

\* createProposal(agentId, title, description, options, type), while fewer
\* than limit proposals exist.
CreateProposalWithin(limit, agentId, type, optionCount) ==
    /\ IF agentId \notin DOMAIN agents
       THEN UNCHANGED << proposals, proposalIdCounter >>
       ELSE /\ proposalIdCounter <= limit
            /\ proposals' = (proposalIdCounter :>
                    NewProposal(proposalIdCounter, type, optionCount, now))
                    @@ proposals
            /\ proposalIdCounter' = proposalIdCounter + 1
    /\ UNCHANGED << agents, decisions, votes, consensusHistory,
                    decisionIdCounter, now >>

CreateProposal(agentId, type, optionCount) ==
    CreateProposalWithin(MaxProposals, agentId, type, optionCount)

\* One call of vote(); d is the time that passes between the deadline check
\* of vote() and the one of checkConsensus (a call that returns an error
\* before checkConsensus has no second clock read, so d = 0 there).
Vote(agentId, pid, v, d) ==
    /\ now + d <= MaxTime
    /\ \E r \in {vote(Sys, votes, agentId, pid, v, now, now + d)} :
        /\ r.error # "" => d = 0
        /\ Len(r.sys.consensusHistory) <= MaxDecisions
        /\ SetSys(r.sys)
        /\ votes' = r.votes
    /\ now' = now + d
    /\ UNCHANGED proposalIdCounter

TotalComments ==
    SumOver([pid \in DOMAIN proposals |-> Len(proposals[pid].comments)],
            DOMAIN proposals)

\* addComment(agentId, proposalId, comment): the new proposals map, or the error.
addComment(S, agentId, pid) ==
    IF agentId \notin DOMAIN S.agents
    THEN [sys |-> S, error |-> "AgentNotFound"]
    ELSE IF pid \notin DOMAIN S.proposals
    THEN [sys |-> S, error |-> "ProposalNotFound"]
    ELSE [sys |-> [S EXCEPT !.proposals[pid].comments =
                        Append(@, "comment")],
          error |-> ""]

AddComment(agentId, pid) ==
    /\ \E r \in {addComment(Sys, agentId, pid)} :
        /\ r.error = "" => TotalComments < MaxComments
        /\ SetSys(r.sys)
    /\ UNCHANGED << votes, proposalIdCounter, now >>

\* AIConsensusStrategy.getVoteSuggestion(proposalId): runs checkConsensus.
getVoteSuggestion(S, pid, t) ==
    IF pid \notin DOMAIN S.proposals THEN S ELSE checkConsensus(S, pid, t)

GetVoteSuggestion(pid) ==
    /\ \E S1 \in {getVoteSuggestion(Sys, pid, now)} :
        /\ Len(S1.consensusHistory) <= MaxDecisions
        /\ SetSys(S1)
    /\ UNCHANGED << votes, proposalIdCounter, now >>

Next ==
    \/ Tick
    \/ \E reg \in Registrations : RegisterAgent(reg[1], reg[2])
    \/ \E a \in AgentIds, shape \in ProposalShapes :
            CreateProposal(a, shape[1], shape[2])
    \/ \E a \in AgentIds, pid \in 1 .. MaxProposals, d \in 0 .. 1 :
         \E v \in (IF pid \in DOMAIN proposals
                   THEN VoteInputs(proposals[pid].type) ELSE {Num(0)}) :
            Vote(a, pid, v, d)
    \/ \E a \in AgentIds, pid \in 1 .. MaxProposals : AddComment(a, pid)
    \/ \E pid \in 1 .. MaxProposals : GetVoteSuggestion(pid)

Spec == Init /\ [][Next]_vars

\* ---- the system with two proposals side by side: two agents, proposals of
\* two types, votes and time; no comments and no advisory calls.
RegistrationsTwo == { <<"a", 10>>, <<"b", 15>> }
ShapesTwo == { <<"yesno", 0>>, <<"single", 3>> }

NextTwo ==
    \/ Tick
    \/ \E reg \in RegistrationsTwo : RegisterAgent(reg[1], reg[2])
    \/ \E reg \in RegistrationsTwo, shape \in ShapesTwo :
            CreateProposalWithin(MaxProposalsTwo, reg[1], shape[1], shape[2])
    \/ \E reg \in RegistrationsTwo, pid \in 1 .. MaxProposalsTwo, d \in 0 .. 1 :
         \E v \in (IF pid \in DOMAIN proposals
                   THEN VoteInputs(proposals[pid].type) ELSE {Num(0)}) :
            Vote(reg[1], pid, v, d)

SpecTwo == Init /\ [][NextTwo]_vars

\* ------------------------------------------------------------------------
\* Properties.  A property of a call is stated on the operator of the
\* method, over every reachable state and every argument of these sets.
\* ------------------------------------------------------------------------
AllVoteValues == UNION { VoteInputs(shape[1]) : shape \in ProposalShapes }
ProposalIdInputs == 1 .. (MaxProposals + 1)
LaterTimes == now .. (MaxTime + 1)

Finalized == {"accepted", "rejected"}
DecisionsOf(history, pid) ==
    { i \in DOMAIN history : history[i].proposalId = pid }

\* C1: finalization is idempotent per proposal: at most one Decision with a
\* given proposalId exists in consensusHistory and in decisions, and no
\* voter is credited twice for one proposal.
C1_OneDecisionPerProposal ==
    /\ \A pid \in DOMAIN proposals :
        /\ Cardinality(DecisionsOf(consensusHistory, pid)) <= 1
        /\ Cardinality(DecisionsOf(decisions, pid)) <= 1
    /\ \A a \in DOMAIN agents :
        agents[a].participatedDecisions <=
            Cardinality({ pid \in DOMAIN proposals :
                            a \in DOMAIN proposals[pid].votes })

\* C2: accepted and rejected are terminal: no step changes the status of a
\* proposal that is accepted or rejected.
C2_TerminalStatus ==
    [][ \A pid \in DOMAIN proposals :
            proposals[pid].status \in Finalized
                => proposals'[pid].status = proposals[pid].status ]_vars

\* The vote(agentId, pid, v) call made in the current state, whose consensus
\* check reads the clock at t2.
VoteCall(agentId, pid, v, t2) == vote(Sys, votes, agentId, pid, v, now, t2)

\* (sum of the registered weights of the agents whose recorded vote is 'yes'
\* or true) / N >= T, for the proposal pid of system object S.
YesRatioAtLeastT(S, pid) ==
    LET P == S.proposals[pid]
        yesVoters == { a \in DOMAIN P.votes :
                         \/ P.votes[a] = Str("yes")
                         \/ P.votes[a] = Bool(TRUE) }
        yesWeight == SumOver([a \in yesVoters |-> S.agents[a].weight], yesVoters)
    IN  yesWeight * 100 >=
            P.requiredConsensus * WeightUnit * Cardinality(DOMAIN S.agents)

SuccessfulYesNoVote(r, pid) ==
    /\ r.error = ""
    /\ r.sys.proposals[pid].type = "yesno"

\* C3 (as claimed): after every successful vote() on a yesno proposal the
\* status is accepted iff weighted yes / N >= T.
C3_AcceptedIffRatio ==
    \A a \in AgentIds, pid \in DOMAIN proposals, v \in AllVoteValues,
       t2 \in LaterTimes :
        LET r == VoteCall(a, pid, v, t2)
        IN  SuccessfulYesNoVote(r, pid) =>
                ( r.sys.proposals[pid].status = "accepted"
                    <=> YesRatioAtLeastT(r.sys, pid) )

\* C3 (amended): after every successful vote() on a yesno proposal the status
\* is accepted iff at least minAgents votes are recorded and weighted
\* yes / N >= T.
C3_AcceptedIffRatioAndQuorum ==
    \A a \in AgentIds, pid \in DOMAIN proposals, v \in AllVoteValues,
       t2 \in LaterTimes :
        LET r == VoteCall(a, pid, v, t2)
        IN  SuccessfulYesNoVote(r, pid) =>
                ( r.sys.proposals[pid].status = "accepted"
                    <=> /\ Cardinality(DOMAIN r.sys.proposals[pid].votes) >= minAgents
                        /\ YesRatioAtLeastT(r.sys, pid) )

\* A yesno proposal is accepted on the votes of two of the three registered
\* agents, with one Decision recorded.
C3_Witness ==
    \E pid \in DOMAIN proposals :
        /\ proposals[pid].type = "yesno"
        /\ proposals[pid].status = "accepted"
        /\ Cardinality(DOMAIN proposals[pid].votes) = 2
        /\ Cardinality(DOMAIN agents) = 3
        /\ Len(consensusHistory) = 1
        /\ YesRatioAtLeastT(Sys, pid)

\* C4: with fewer than minAgents votes a consensus evaluation changes
\* nothing (status, decisions, agent counters), whatever the yes weight and
\* the clock; and every Decision has at least minAgents participants.
C4_NoTransitionBelowMinAgents ==
    /\ \A pid \in DOMAIN proposals, t \in LaterTimes :
        Cardinality(DOMAIN proposals[pid].votes) < minAgents
            => /\ checkConsensus(Sys, pid, t) = Sys
               /\ getVoteSuggestion(Sys, pid, t) = Sys
    /\ \A a \in AgentIds, pid \in DOMAIN proposals, v \in AllVoteValues,
          t2 \in LaterTimes :
        LET r == VoteCall(a, pid, v, t2)
        IN  ( /\ r.error = ""
              /\ Cardinality(DOMAIN r.sys.proposals[pid].votes) < minAgents )
            => /\ r.sys.proposals[pid].status = proposals[pid].status
               /\ r.sys.consensusHistory = consensusHistory
               /\ r.sys.decisions = decisions
               /\ r.sys.agents = agents
    /\ \A i \in DOMAIN consensusHistory :
        Cardinality(consensusHistory[i].participants) >= minAgents

\* One vote is recorded, it alone carries the yes ratio to the threshold, the
\* deadline has passed, and the proposal is still voting without a Decision.
C4_Witness ==
    \E pid \in DOMAIN proposals :
        /\ Cardinality(DOMAIN proposals[pid].votes) = 1
        /\ proposals[pid].type = "yesno"
        /\ YesRatioAtLeastT(Sys, pid)
        /\ now > proposals[pid].deadline
        /\ proposals[pid].status = "voting"
        /\ consensusHistory = << >>

\* C5: a vote() by a registered agent on a voting proposal after its deadline
\* is rejected with the expired error: neither votes map changes, the status
\* becomes expired and no Decision is created.
C5_LateVoteRejected ==
    \A a \in DOMAIN agents, pid \in DOMAIN proposals, v \in AllVoteValues,
       t2 \in LaterTimes :
        ( proposals[pid].status = "voting" /\ now > proposals[pid].deadline )
            => LET r == VoteCall(a, pid, v, t2)
               IN  /\ r.error = "ExpiredProposal"
                   /\ r.sys.proposals[pid].votes = proposals[pid].votes
                   /\ r.votes = votes
                   /\ r.sys.proposals[pid].status = "expired"
                   /\ r.sys.consensusHistory = consensusHistory
                   /\ r.sys.decisions = decisions
                   /\ r.sys.agents = agents

\* A late vote was rejected: the proposal carries the expired label, with the
\* votes cast before the deadline still recorded.
C5_Witness ==
    \E pid \in DOMAIN proposals :
        /\ proposals[pid].status = "expired"
        /\ now > proposals[pid].deadline
        /\ proposals[pid].votes # << >>

HasDecision(S, pid) == DecisionsOf(S.consensusHistory, pid) # {}

\* The case of C6 for proposal pid of S at time t: enough votes, yes ratio
\* below the threshold, deadline passed, not finalized yet.
ExpiryDue(S, pid, t) ==
    /\ S.proposals[pid].status \in {"voting", "expired"}
    /\ Cardinality(DOMAIN S.proposals[pid].votes) >= minAgents
    /\ ~ConsensusStatus(S, S.proposals[pid]).reached
    /\ t > S.proposals[pid].deadline

RejectedOnce(S, pid) ==
    /\ S.proposals[pid].status = "rejected"
    /\ Cardinality(DecisionsOf(S.consensusHistory, pid)) = 1

\* C6: expired is only a transient label: a vote or a consensus check that
\* touches a proposal in the case ExpiryDue leaves it rejected with exactly
\* one Decision, and no operation returns leaving a proposal expired
\* without a Decision.
C6_ExpiredIsTransient ==
    /\ \A pid \in DOMAIN proposals : ExpiryDue(Sys, pid, now) =>
        /\ RejectedOnce(getVoteSuggestion(Sys, pid, now), pid)
        /\ \A a \in DOMAIN agents, v \in AllVoteValues :
            RejectedOnce(VoteCall(a, pid, v, now).sys, pid)
    /\ \A pid \in DOMAIN proposals :
        proposals[pid].status = "expired" => HasDecision(Sys, pid)

VoteInputErrors ==
    { "AgentNotFound", "ProposalNotFound", "ProposalNotVoting",
      "invalid option index", "multi needs array", "ranked needs array",
      "yesno needs yes/no/true/false" }

\* C7: a vote() that fails because the agent is not registered, the proposal
\* does not exist or is not voting, or the value fails validation, leaves
\* the whole state unchanged.
C7_FailedVoteChangesNothing ==
    \A a \in AgentIds, pid \in ProposalIdInputs, v \in AllVoteValues,
       t2 \in LaterTimes :
        LET r == VoteCall(a, pid, v, t2)
        IN  /\ r.error \in VoteInputErrors \cup {"", "ExpiredProposal"}
            /\ r.error \in VoteInputErrors => (r.sys = Sys /\ r.votes = votes)

\* Scenario D on a proposal that already has a vote: an unregistered agent's
\* vote fails, and so does a value the validator rejects.
C7_Witness ==
    \E pid \in DOMAIN proposals, a \in AgentIds, b \in AgentIds, v \in AllVoteValues :
        /\ proposals[pid].votes # << >>
        /\ VoteCall(a, pid, v, now).error = "AgentNotFound"
        /\ VoteCall(b, pid, v, now).error \in
              {"invalid option index", "multi needs array",
               "yesno needs yes/no/true/false"}

\* The validator contract of a proposal type, as the claim states it.
MeetsContract(type, optionCount, v) ==
    CASE type = "single" -> v.k = "num" => (0 <= v.n /\ v.n < optionCount)
      [] type \in {"multi", "ranked"} -> v.k = "arr"
      [] type = "yesno" ->
            v \in {Str("yes"), Str("no"), Bool(TRUE), Bool(FALSE)}
      [] OTHER -> TRUE

\* C8: every recorded vote meets the validator contract of its proposal's
\* type, and a vote() with a value that violates it fails and records
\* nothing.
C8_RecordedVotesValid ==
    /\ \A pid \in DOMAIN proposals : \A a \in DOMAIN proposals[pid].votes :
        MeetsContract(proposals[pid].type, proposals[pid].optionCount,
                      proposals[pid].votes[a])
    /\ \A pid \in DOMAIN proposals, a \in AgentIds, v \in AllVoteValues :
        ~MeetsContract(proposals[pid].type, proposals[pid].optionCount, v)
            => LET r == VoteCall(a, pid, v, now)
               IN  /\ r.error # ""
                   /\ r.sys.proposals[pid].votes = proposals[pid].votes
                   /\ r.votes = votes

\* Scenario C: a single proposal with 3 options holds an in-range index vote,
\* and index 5 from another registered agent is refused while it is voting.
C8_Witness ==
    \E pid \in DOMAIN proposals, a \in DOMAIN agents :
        /\ proposals[pid].type = "single"
        /\ proposals[pid].optionCount = 3
        /\ \E b \in DOMAIN proposals[pid].votes : proposals[pid].votes[b] = Num(1)
        /\ a \notin DOMAIN proposals[pid].votes
        /\ VoteCall(a, pid, Num(5), now).error = "invalid option index"

\* C9: a proposal never has more votes than there are registered agents, and
\* every voter is a registered agent.
C9_VotersAreRegistered ==
    \A pid \in DOMAIN proposals :
        /\ Cardinality(DOMAIN proposals[pid].votes) <= Cardinality(DOMAIN agents)
        /\ DOMAIN proposals[pid].votes \subseteq DOMAIN agents

\* Every registered agent has voted on a proposal while another agent id is
\* still unregistered.
C9_Witness ==
    \E pid \in DOMAIN proposals :
        /\ DOMAIN proposals[pid].votes = DOMAIN agents
        /\ Cardinality(DOMAIN agents) = 2

\* The buckets of the claim.
InYesBucket(v) == v \in {Str("yes"), Bool(TRUE), Num(0)}
InNoBucket(v) == v \in {Str("no"), Bool(FALSE), Num(1)}

\* The counters of every agent after a finalization of pid (S1) against the
\* counters before it (S0); P is the proposal as finalized.
CountersCredited(S0, S1, pid) ==
    LET P == S1.proposals[pid]
        d(a, field) == S1.agents[a][field] - S0.agents[a][field]
    IN  /\ DOMAIN S1.agents = DOMAIN S0.agents
        /\ \A a \in DOMAIN S0.agents :
            IF a \in DOMAIN P.votes
            THEN /\ d(a, "participatedDecisions") = 1
                 /\ S1.agents[a].weight = S0.agents[a].weight
                 /\ S1.agents[a].reputation = S0.agents[a].reputation
                 /\ P.type \in {"yesno", "single"} =>
                        /\ d(a, "agreedDecisions") + d(a, "disagreedDecisions") = 1
                        /\ d(a, "agreedDecisions") \in {0, 1}
                        /\ InYesBucket(P.votes[a]) => d(a, "agreedDecisions") = 1
                        /\ InNoBucket(P.votes[a]) => d(a, "disagreedDecisions") = 1
                 /\ P.type \in {"multi", "ranked"} =>
                        /\ d(a, "agreedDecisions") = 0
                        /\ d(a, "disagreedDecisions") = 0
            ELSE S1.agents[a] = S0.agents[a]

FinalizedBy(S0, S1, pid) ==
    /\ Len(S1.consensusHistory) = Len(S0.consensusHistory) + 1
    /\ S1.consensusHistory[Len(S1.consensusHistory)].proposalId = pid

\* C10: a finalization credits every voter of the proposal with one
\* participation, for yesno and single with exactly one of agreed/disagreed
\* by its bucket, for multi and ranked with neither, and changes no counter of
\* an agent that did not vote.  Every call that can finalize is covered.
C10_CountersAtFinalization ==
    /\ \A pid \in DOMAIN proposals, t \in LaterTimes :
        /\ CountersCredited(Sys, finalizeDecision(Sys, pid, t), pid)
        /\ LET S1 == checkConsensus(Sys, pid, t)
           IN  IF FinalizedBy(Sys, S1, pid)
               THEN CountersCredited(Sys, S1, pid)
               ELSE S1 = Sys
    /\ \A pid \in DOMAIN proposals, a \in AgentIds, v \in AllVoteValues,
          t2 \in LaterTimes :
        LET r == VoteCall(a, pid, v, t2)
        IN  IF FinalizedBy(Sys, r.sys, pid)
            THEN CountersCredited(Sys, r.sys, pid)
            ELSE r.sys.agents = agents

\* Decisions exist for which one voter was credited an agreement, another a
\* disagreement, and a registered agent that did not vote nothing.
C10_Witness ==
    /\ Len(consensusHistory) >= 1
    /\ \E a \in DOMAIN agents, b \in DOMAIN agents, c \in DOMAIN agents :
        /\ agents[a].participatedDecisions = 1 /\ agents[a].agreedDecisions = 1
        /\ agents[b].participatedDecisions = 1 /\ agents[b].disagreedDecisions = 1
        /\ agents[c].participatedDecisions = 0
        /\ \A i \in DOMAIN consensusHistory :
            c \notin consensusHistory[i].participants

\* The registered weights of the voters of proposal P.
RegisteredWeights(P) == [a \in DOMAIN P.votes |-> agents[a].weight]

\* C11: for every yesno, single or multi proposal countVotes returns, for
\* every bucket, the number of the agents whose vote falls in it and the sum
\* of their registered weights; every vote falls in a bucket; and the
\* weighted sums of all buckets, like the weights of the breakdown list, add
\* up to the total weight of the voters.
C11_CountVotesRoundTrip ==
    \A pid \in DOMAIN proposals :
        proposals[pid].type \in {"yesno", "single", "multi"} =>
            LET P == proposals[pid]
                voters == DOMAIN P.votes
                r == countVotes(Sys, P)
                w == RegisteredWeights(P)
                InBucket(k) == { a \in voters : CountKey(P, P.votes[a]) = k }
            IN  /\ DOMAIN r.weightedCounts = DOMAIN r.counts
                /\ \A a \in voters : CountKey(P, P.votes[a]) \in DOMAIN r.counts
                /\ \A k \in DOMAIN r.counts :
                    /\ r.counts[k] = Cardinality(InBucket(k))
                    /\ r.weightedCounts[k] = SumOver(w, InBucket(k))
                /\ SumOver(r.weightedCounts, DOMAIN r.weightedCounts)
                        = SumOver(w, voters)
                /\ SumOver([e \in r.breakdown |-> e.weight], r.breakdown)
                        = SumOver(w, voters)

\* What the claims call the state of the system object S: every proposal's
\* status and votes, the agents, the decisions map and the history.
ObservedState(S) ==
    [ status |-> [pid \in DOMAIN S.proposals |-> S.proposals[pid].status],
      votes |-> [pid \in DOMAIN S.proposals |-> S.proposals[pid].votes],
      agents |-> S.agents,
      decisions |-> S.decisions,
      consensusHistory |-> S.consensusHistory ]

\* C12: the advisory layer only reads state: getVoteSuggestion, called at any
\* time on any proposal id, leaves every proposal's status and votes, every
\* agent's counters, the decisions map and the consensus history unchanged.
C12_AdvisoryLayerOnlyReads ==
    \A pid \in ProposalIdInputs, t \in LaterTimes :
        ObservedState(getVoteSuggestion(Sys, pid, t)) = ObservedState(Sys)

WeightInputs == { reg[2] : reg \in Registrations }

\* Every agent of S0 is still registered in S1 with the same weight and
\* reputation 100, and none of its counters is smaller.
AgentsPersist(S0, S1) ==
    \A a \in DOMAIN S0.agents :
        /\ a \in DOMAIN S1.agents
        /\ S1.agents[a].weight = S0.agents[a].weight
        /\ S1.agents[a].reputation = 100
        /\ S1.agents[a].participatedDecisions >= S0.agents[a].participatedDecisions
        /\ S1.agents[a].agreedDecisions >= S0.agents[a].agreedDecisions
        /\ S1.agents[a].disagreedDecisions >= S0.agents[a].disagreedDecisions

\* C13: an agent record starts with reputation 100 and zero counters and no
\* operation deletes it, changes its weight or reputation, or decreases a
\* counter: not vote, not a consensus check, not a comment, and not
\* registerAgent called again with the same id.
C13_AgentRecordsPersist ==
    /\ \A a \in AgentIds, w \in WeightInputs :
        LET S1 == registerAgent(Sys, a, w)
        IN  /\ a \notin DOMAIN agents =>
                /\ S1.agents[a].reputation = 100
                /\ S1.agents[a].participatedDecisions = 0
                /\ S1.agents[a].agreedDecisions = 0
                /\ S1.agents[a].disagreedDecisions = 0
            /\ AgentsPersist(Sys, S1)
    /\ \A a \in AgentIds, pid \in ProposalIdInputs :
        /\ AgentsPersist(Sys, addComment(Sys, a, pid).sys)
        /\ \A t \in LaterTimes :
            /\ AgentsPersist(Sys, getVoteSuggestion(Sys, pid, t))
            /\ \A v \in AllVoteValues :
                AgentsPersist(Sys, VoteCall(a, pid, v, t).sys)

\* The history of S1 starts with the history of S0, entry for entry, and
\* every Decision of S0's map is in S1's map under the same id, unchanged.
HistoryExtends(S0, S1) ==
    /\ Len(S1.consensusHistory) >= Len(S0.consensusHistory)
    /\ SubSeq(S1.consensusHistory, 1, Len(S0.consensusHistory))
            = S0.consensusHistory
    /\ \A id \in DOMAIN S0.decisions :
        /\ id \in DOMAIN S1.decisions
        /\ S1.decisions[id] = S0.decisions[id]

\* decidedAt is non-decreasing along the history of S, and the decisions map
\* holds exactly the Decisions of the history, each under its own id.
HistoryWellFormed(S) ==
    /\ \A i, j \in DOMAIN S.consensusHistory :
        i <= j => S.consensusHistory[i].decidedAt <= S.consensusHistory[j].decidedAt
    /\ \A i, j \in DOMAIN S.consensusHistory :
        S.consensusHistory[i].id = S.consensusHistory[j].id => i = j
    /\ DOMAIN S.decisions = { S.consensusHistory[i].id : i \in DOMAIN S.consensusHistory }
    /\ \A i \in DOMAIN S.consensusHistory :
        S.decisions[S.consensusHistory[i].id] = S.consensusHistory[i]

\* C14: the decision history is append-only and decisions are immutable:
\* every operation keeps the existing entries of consensusHistory unchanged
\* and in order and appends new Decisions at the end, decidedAt is
\* non-decreasing along the history, and the decisions map holds exactly the
\* Decisions of the history, each under a distinct id.
C14_HistoryAppendOnly ==
    /\ HistoryWellFormed(Sys)
    /\ \A a \in AgentIds, w \in WeightInputs :
        HistoryExtends(Sys, registerAgent(Sys, a, w))
    /\ \A pid \in DOMAIN proposals, t \in LaterTimes :
        LET S1 == finalizeDecision(Sys, pid, t)
        IN  HistoryExtends(Sys, S1) /\ HistoryWellFormed(S1)
    /\ \A pid \in ProposalIdInputs, t \in LaterTimes :
        LET S1 == getVoteSuggestion(Sys, pid, t)
        IN  HistoryExtends(Sys, S1) /\ HistoryWellFormed(S1)
    /\ \A a \in AgentIds, pid \in ProposalIdInputs :
        /\ HistoryExtends(Sys, addComment(Sys, a, pid).sys)
        /\ \A t \in LaterTimes, v \in AllVoteValues :
            LET S1 == VoteCall(a, pid, v, t).sys
            IN  HistoryExtends(Sys, S1) /\ HistoryWellFormed(S1)

\* The history holds two Decisions taken at different times, the earlier
\* one first, and the decisions map holds both.
C14_Witness ==
    /\ Len(consensusHistory) = 2
    /\ consensusHistory[1].decidedAt < consensusHistory[2].decidedAt
    /\ DOMAIN decisions = {consensusHistory[1].id, consensusHistory[2].id}
    /\ consensusHistory[1].id # consensusHistory[2].id

\* The bucketing rule as the claims state it.
YesByRule(type, v) ==
    CASE type \in {"yesno", "single"} -> InYesBucket(v)
      [] type = "multi" -> v.k = "arr" /\ \E i \in DOMAIN v.xs : v.xs[i] = 0
      [] OTHER -> FALSE

NoByRule(type, v) ==
    CASE type \in {"yesno", "single"} -> InNoBucket(v)
      [] type = "multi" -> ~YesByRule(type, v)
      [] OTHER -> FALSE

YesVotersByRule(P) == { a \in DOMAIN P.votes : YesByRule(P.type, P.votes[a]) }
NoVotersByRule(P) == { a \in DOMAIN P.votes : NoByRule(P.type, P.votes[a]) }

\* (registered weight of the yes voters of pid) / N >= requiredConsensus in S
YesRatioByRuleAtLeastT(S, pid) ==
    LET P == S.proposals[pid]
        w == [a \in DOMAIN P.votes |-> S.agents[a].weight]
    IN  SumOver(w, YesVotersByRule(P)) * 100 >=
            P.requiredConsensus * WeightUnit * Cardinality(DOMAIN S.agents)

\* The vote() call (a, pid, v) that races the deadline: made while
\* now <= deadline on a voting proposal, evaluated at t2 > deadline.
RacesDeadline(a, pid, v, t2) ==
    /\ a \in DOMAIN agents
    /\ proposals[pid].status = "voting"
    /\ now <= proposals[pid].deadline
    /\ t2 > proposals[pid].deadline
    /\ validateVote(proposals[pid], v) = ""

\* C15: a vote that passes the deadline check of vote() and is evaluated
\* after the deadline is recorded; with at least minAgents votes the same
\* call finalizes the proposal with exactly one Decision: accepted if the yes
\* ratio reaches the threshold, rejected otherwise.
C15_BothDeadlineChecksEffective ==
    \A a \in AgentIds, pid \in DOMAIN proposals, v \in AllVoteValues,
       t2 \in LaterTimes :
        RacesDeadline(a, pid, v, t2) =>
            LET r == VoteCall(a, pid, v, t2)
                P1 == r.sys.proposals[pid]
                outcome == IF YesRatioByRuleAtLeastT(r.sys, pid)
                           THEN "accepted" ELSE "rejected"
                made == DecisionsOf(r.sys.consensusHistory, pid)
            IN  /\ r.error = ""
                /\ a \in DOMAIN P1.votes /\ P1.votes[a] = v
                /\ Cardinality(DOMAIN P1.votes) >= minAgents =>
                    /\ P1.status = outcome
                    /\ Cardinality(made) = 1
                    /\ \A i \in made :
                        /\ r.sys.consensusHistory[i].result = outcome
                        /\ r.sys.consensusHistory[i].decidedAt = t2
                    /\ Len(r.sys.consensusHistory) = Len(consensusHistory) + 1

\* One vote is recorded and the clock stands at the deadline: a second vote
\* evaluated one tick later is recorded and rejects the proposal if it is a
\* no, and accepts it if it is a yes.
C15_Witness ==
    \E pid \in DOMAIN proposals, a \in DOMAIN agents :
        /\ now = proposals[pid].deadline
        /\ Cardinality(DOMAIN proposals[pid].votes) = 1
        /\ a \notin DOMAIN proposals[pid].votes
        /\ \E v \in AllVoteValues :
            /\ RacesDeadline(a, pid, v, now + 1)
            /\ VoteCall(a, pid, v, now + 1).sys.proposals[pid].status = "rejected"
        /\ \E v \in AllVoteValues :
            /\ RacesDeadline(a, pid, v, now + 1)
            /\ VoteCall(a, pid, v, now + 1).sys.proposals[pid].status = "accepted"

\* The tally st of an evaluation of proposal P in system S agrees with the
\* bucketing rule: each vote is in exactly one bucket, the counts are the
\* sizes of the buckets and the weights the sums of the registered weights.
TallyFollowsRule(S, P, st) ==
    LET voters == DOMAIN P.votes
        yes == YesVotersByRule(P)
        no == NoVotersByRule(P)
        w == [a \in voters |-> S.agents[a].weight]
    IN  /\ yes \cap no = {}
        /\ st.yesVotes = Cardinality(yes)
        /\ st.noVotes = Cardinality(no)
        /\ st.abstainVotes = Cardinality(voters \ (yes \cup no))
        /\ P.type = "multi" => st.abstainVotes = 0
        /\ st.totalVotes = Cardinality(voters)
        /\ st.yesVotes + st.noVotes + st.abstainVotes = st.totalVotes
        /\ st.yesWeight = SumOver(w, yes)
        /\ st.noWeight = SumOver(w, no)

TalliedTypes == {"yesno", "single", "multi"}

\* C16: the tally of a consensus evaluation with at least minAgents votes,
\* on a yesno, single or multi proposal, places every recorded vote in exactly
\* one bucket by the stated rule; the three counts add up to totalVotes and
\* yesWeight and noWeight are the weight sums of the yes and no buckets.
\* Stated for the evaluation of every proposal of the current state and for
\* the evaluation every vote() call runs.
C16_TallyFollowsRule ==
    /\ \A pid \in DOMAIN proposals :
        ( /\ proposals[pid].type \in TalliedTypes
          /\ Cardinality(DOMAIN proposals[pid].votes) >= minAgents )
            => /\ ~ConsensusStatus(Sys, proposals[pid]).insufficient
               /\ TallyFollowsRule(Sys, proposals[pid],
                                    ConsensusStatus(Sys, proposals[pid]))
    /\ \A a \in AgentIds, pid \in DOMAIN proposals, v \in AllVoteValues :
        LET r == VoteCall(a, pid, v, now)
            S1 == [Sys EXCEPT !.proposals[pid].votes = (a :> v) @@ @]
        IN  ( /\ r.error = ""
              /\ proposals[pid].type \in TalliedTypes
              /\ Cardinality(DOMAIN S1.proposals[pid].votes) >= minAgents )
                => /\ ~r.consensusStatus.insufficient
                   /\ TallyFollowsRule(S1, S1.proposals[pid], r.consensusStatus)

\* A single proposal holds a vote of each bucket: index 0, index 1 and a
\* label.
C16_Witness ==
    \E pid \in DOMAIN proposals :
        LET P == proposals[pid]
            st == ConsensusStatus(Sys, P)
        IN  /\ P.type = "single"
            /\ st.yesVotes = 1 /\ st.noVotes = 1 /\ st.abstainVotes = 1
            /\ \E a \in DOMAIN P.votes : P.votes[a] = Str("toString")

\* C17: one vote per agent and the last write wins: a successful
\* vote(a, P, v) makes P's recorded vote of a equal to v, leaves the other
\* agents' votes on P and all votes on the other proposals unchanged (in the
\* proposals and in the votes map of the system), adds 1 to P's vote count
\* if a had not voted and 0 otherwise, and the tally of the evaluation that
\* follows is the tally of the votes as they are after the write.
C17_LastWriteWins ==
    \A a \in AgentIds, pid \in DOMAIN proposals, v \in AllVoteValues,
       t2 \in LaterTimes :
        LET r == VoteCall(a, pid, v, t2)
            P0 == proposals[pid]
            P1 == r.sys.proposals[pid]
        IN  r.error = "" =>
            /\ DOMAIN r.sys.proposals = DOMAIN proposals
            /\ DOMAIN P1.votes = DOMAIN P0.votes \cup {a}
            /\ P1.votes[a] = v
            /\ \A b \in DOMAIN P0.votes \ {a} : P1.votes[b] = P0.votes[b]
            /\ \A q \in DOMAIN proposals \ {pid} :
                r.sys.proposals[q].votes = proposals[q].votes
            /\ Cardinality(DOMAIN P1.votes) =
                    Cardinality(DOMAIN P0.votes)
                        + (IF a \in DOMAIN P0.votes THEN 0 ELSE 1)
            /\ DOMAIN r.votes = DOMAIN votes \cup {<<pid, a>>}
            /\ r.votes[<<pid, a>>] = v
            /\ \A key \in DOMAIN votes \ {<<pid, a>>} : r.votes[key] = votes[key]
            /\ r.consensusStatus.insufficient
                    <=> Cardinality(DOMAIN P1.votes) < minAgents
            /\ ( ~r.consensusStatus.insufficient /\ P1.type \in TalliedTypes )
                    => TallyFollowsRule(r.sys, P1, r.consensusStatus)

\* Two proposals hold votes, and an agent that has voted on one of them can
\* replace its vote there by a different value.
C17_Witness ==
    \E pid \in DOMAIN proposals, q \in DOMAIN proposals, a \in DOMAIN agents :
        /\ q # pid
        /\ proposals[q].votes # << >>
        /\ a \in DOMAIN proposals[pid].votes
        /\ \E b \in DOMAIN proposals[pid].votes : b # a
        /\ \E v \in AllVoteValues :
            /\ v # proposals[pid].votes[a]
            /\ VoteCall(a, pid, v, now).error = ""
            /\ VoteCall(a, pid, v, now).sys.proposals[pid].votes[a] = v

\* The votes map of the finalized proposal pid is the same in S1 as in the
\* current state, and pid is still finalized in S1.
VotesFrozen(S1, pid) ==
    /\ S1.proposals[pid].votes = proposals[pid].votes
    /\ S1.proposals[pid].status \in Finalized

\* C18: once a proposal is accepted or rejected no operation adds, removes
\* or replaces an entry of its votes map (and it stays finalized, so this
\* holds from the first finalization onwards), and the participants of its
\* Decision are the agents of its votes map.
C18_VotesImmutableOnceFinalized ==
    /\ \A i \in DOMAIN consensusHistory :
        LET D == consensusHistory[i]
        IN  /\ proposals[D.proposalId].status \in Finalized
            /\ D.participants = DOMAIN proposals[D.proposalId].votes
    /\ \A pid \in DOMAIN proposals :
        proposals[pid].status \in Finalized =>
            /\ HasDecision(Sys, pid)
            /\ \A a \in AgentIds, w \in WeightInputs :
                VotesFrozen(registerAgent(Sys, a, w), pid)
            /\ \A q \in ProposalIdInputs, t \in LaterTimes :
                VotesFrozen(getVoteSuggestion(Sys, q, t), pid)
            /\ \A a \in AgentIds, q \in ProposalIdInputs :
                /\ VotesFrozen(addComment(Sys, a, q).sys, pid)
                /\ \A v \in AllVoteValues, t \in LaterTimes :
                    VotesFrozen(VoteCall(a, q, v, t).sys, pid)

\* A proposal was accepted before its deadline on the votes of two agents,
\* and a third registered agent's valid vote is refused because the proposal
\* is no longer voting.
C18_Witness ==
    \E pid \in DOMAIN proposals, c \in DOMAIN agents, v \in AllVoteValues :
        /\ proposals[pid].status = "accepted"
        /\ now <= proposals[pid].deadline
        /\ c \notin DOMAIN proposals[pid].votes
        /\ validateVote(proposals[pid], v) = ""
        /\ VoteCall(c, pid, v, now).error = "ProposalNotVoting"
        /\ \E i \in DOMAIN consensusHistory :
            /\ consensusHistory[i].proposalId = pid
            /\ consensusHistory[i].participants = DOMAIN proposals[pid].votes

NeverAccepted == {"voting", "expired", "rejected"}

\* C19: a proposal of type ranked, or of any type outside single, multi and
\* yesno, is never accepted: its tally has no yes vote and no yes weight, its
\* status is voting, expired or rejected, and every call leaves it so.
C19_UntalliedTypesNeverAccepted ==
    \A pid \in DOMAIN proposals :
        proposals[pid].type \notin TalliedTypes =>
            /\ proposals[pid].status \in NeverAccepted
            /\ ConsensusStatus(Sys, proposals[pid]).yesVotes = 0
            /\ ConsensusStatus(Sys, proposals[pid]).yesWeight = 0
            /\ ~ConsensusStatus(Sys, proposals[pid]).reached
            /\ \A t \in LaterTimes :
                /\ getVoteSuggestion(Sys, pid, t).proposals[pid].status
                        \in NeverAccepted
                /\ \A a \in AgentIds, v \in AllVoteValues :
                    LET r == VoteCall(a, pid, v, t)
                    IN  /\ r.sys.proposals[pid].status \in NeverAccepted
                        /\ ~r.consensusStatus.reached

\* Every registered agent voted the array [0] on a ranked proposal, and the
\* proposal was rejected.
C19_Witness ==
    \E pid \in DOMAIN proposals :
        /\ proposals[pid].type = "ranked"
        /\ Cardinality(DOMAIN agents) >= minAgents
        /\ DOMAIN proposals[pid].votes = DOMAIN agents
        /\ \A a \in DOMAIN agents : proposals[pid].votes[a] = Arr(<<0>>)
        /\ proposals[pid].status = "rejected"
        /\ HasDecision(Sys, pid)

\* consensusRatio >= requiredConsensus, for the ratio num/den of a Decision
\* and a threshold in percent.
RatioAtLeast(ratio, requiredConsensus) ==
    ratio.num * 100 >= requiredConsensus * ratio.den

\* C20: the consensus ratio recorded in a Decision is consistent with its
\* outcome: at or above the proposal's requiredConsensus when the result is
\* accepted, below it when the result is rejected.
C20_RatioMatchesOutcome ==
    \A i \in DOMAIN consensusHistory :
        LET D == consensusHistory[i]
            T == proposals[D.proposalId].requiredConsensus
        IN  /\ D.result = "accepted" => RatioAtLeast(D.consensusRatio, T)
            /\ D.result = "rejected" => ~RatioAtLeast(D.consensusRatio, T)

\* The Decision the finalization that led from S0 to S1 appended.
LastDecision(S1) == S1.consensusHistory[Len(S1.consensusHistory)]

\* results.weightedCounts[key] of Decision D is a number equal to weight.
WeightedCountIs(D, key, weight) ==
    /\ key \in DOMAIN D.results.weightedCounts
    /\ D.results.weightedCounts[key] = weight

\* The snapshot of Decision D agrees with the tally st that decided it, as
\* the claim states it for a proposal of this type.
SnapshotAgrees(type, D, st) ==
    /\ type = "yesno" => WeightedCountIs(D, "yes", st.yesWeight)
    /\ type = "single" =>
        /\ WeightedCountIs(D, "0", st.yesWeight)
        /\ WeightedCountIs(D, "1", st.noWeight)

\* Every finalization a call can make in the current state, with the tally
\* that decided it, satisfies Agrees(proposal, Decision, tally): the
\* finalizations of checkConsensus (so of getVoteSuggestion) and of vote().
EveryFinalization(Agrees(_, _, _)) ==
    /\ \A pid \in DOMAIN proposals, t \in LaterTimes :
        LET S1 == getVoteSuggestion(Sys, pid, t)
        IN  FinalizedBy(Sys, S1, pid) =>
                Agrees(S1.proposals[pid], LastDecision(S1),
                       ConsensusStatus(Sys, proposals[pid]))
    /\ \A a \in AgentIds, pid \in DOMAIN proposals, v \in AllVoteValues,
          t2 \in LaterTimes :
        LET r == VoteCall(a, pid, v, t2)
        IN  FinalizedBy(Sys, r.sys, pid) =>
                Agrees(r.sys.proposals[pid], LastDecision(r.sys),
                       r.consensusStatus)

AgreesAsClaimed(P, D, st) == SnapshotAgrees(P.type, D, st)

\* C21 (as claimed): the tallies snapshotted into a Decision agree with the
\* tally that decided it: weightedCounts.yes = yesWeight for yesno, and
\* weightedCounts[0] = yesWeight, weightedCounts[1] = noWeight for single.
C21_SnapshotAgreesWithTally == EveryFinalization(AgreesAsClaimed)

\* Every vote recorded on P is a numeric option index.
AllIndexVotes(P) == \A a \in DOMAIN P.votes : P.votes[a].k = "num"

AgreesForIndexVotes(P, D, st) ==
    ( \/ P.type = "yesno"
      \/ P.type = "single" /\ P.optionCount >= 2 /\ AllIndexVotes(P) )
        => SnapshotAgrees(P.type, D, st)

\* C21 (amended): the snapshot agrees with the deciding tally for a yesno
\* proposal, and for a single proposal with at least two options on which
\* every recorded vote is a numeric option index.
C21_SnapshotAgreesForIndexVotes == EveryFinalization(AgreesForIndexVotes)

\* A single proposal with three options was accepted on index votes 0 and 1:
\* its Decision holds the yes weight in bucket 0 and the no weight in
\* bucket 1.
C21_Witness ==
    \E pid \in DOMAIN proposals :
        LET P == proposals[pid]
            st == ConsensusStatus(Sys, P)
        IN  /\ P.type = "single" /\ P.optionCount = 3
            /\ AllIndexVotes(P)
            /\ P.status = "accepted"
            /\ Len(consensusHistory) = 1
            /\ st.yesWeight > 0 /\ st.noWeight > 0
            /\ WeightedCountIs(consensusHistory[1], "0", st.yesWeight)
            /\ WeightedCountIs(consensusHistory[1], "1", st.noWeight)

\* C22: in every reachable state every registered agent has counters >= 0,
\* agreedDecisions + disagreedDecisions <= participatedDecisions, and
\* participatedDecisions at most the number of Decisions recorded so far (in
\* the history and in the decisions map).
C22_CounterBounds ==
    \A a \in DOMAIN agents :
        /\ agents[a].participatedDecisions >= 0
        /\ agents[a].agreedDecisions >= 0
        /\ agents[a].disagreedDecisions >= 0
        /\ agents[a].agreedDecisions + agents[a].disagreedDecisions
                <= agents[a].participatedDecisions
        /\ agents[a].participatedDecisions <= Len(consensusHistory)
        /\ agents[a].participatedDecisions <= Cardinality(DOMAIN decisions)

\* Two Decisions are recorded: one agent took part in both and was credited
\* an agreement or a disagreement each time, so both bounds are met with
\* equality; another agent took part in the first and has registered again
\* since.
C22_Witness ==
    /\ Len(consensusHistory) = 2
    /\ \E a \in DOMAIN agents, b \in DOMAIN agents :
        /\ agents[a].participatedDecisions = 2
        /\ agents[a].agreedDecisions + agents[a].disagreedDecisions = 2
        /\ b \in consensusHistory[1].participants
        /\ agents[b].participatedDecisions = 0

====
